---- MODULE Spec2Model ----
(***************************************************************************)
(* Continued fractions of a rational p/q (src/src/lib.rs).                 *)
(*                                                                         *)
(* ContinuedFraction::from_rational is modelled step by step: the          *)
(* normalization (lines 20-27), each iteration of the expansion loop       *)
(* (lines 31-34) and the return (line 36).  to_rational and convergents    *)
(* are read-only methods of the built value; each is one action that       *)
(* computes what the method's loop computes.                               *)
(*                                                                         *)
(* i32 is scaled down to IntBits-bit two's complement.  Every arithmetic   *)
(* result is stored wrapped to that width, and the variable overflow       *)
(* records that some result left the range: a build with overflow checks   *)
(* panics at that operation, a build without them goes on with the wrapped *)
(* value.  Division by zero and MinInt / -1 panic in every build.          *)
(*                                                                         *)
(* The inputs range over -MaxInt..MaxInt.  MinInt itself is left out:      *)
(* there p.abs() overflows and the native gcd would be called with a       *)
(* negative argument, outside the contract it is modelled from.            *)
(***************************************************************************)
EXTENDS Integers, Sequences, FiniteSets, TLC

VARIABLES pc, p_in, q_in, p, q, coefficients, rat, conv, returned, overflow

vars == <<pc, p_in, q_in, p, q, coefficients, rat, conv, returned, overflow>>

\* Scaled-down width of i32.
IntBits == 6

MinInt == -(2^(IntBits - 1))

MaxInt == 2^(IntBits - 1) - 1

Inputs == (-MaxInt)..MaxInt

Fits(x) == MinInt <= x /\ x <= MaxInt

\* Two's complement wrap-around of an exact result.
Wrap(x) == ((x - MinInt) % (2^IntBits)) + MinInt

\* Mathematical absolute value (used by the operators below and by the claims).
Magnitude(x) == IF x < 0 THEN -x ELSE x

\* i32::abs: the wrapped absolute value (MinInt.abs() wraps to MinInt).
abs(x) == Wrap(Magnitude(x))

\* i32 `/` panics on a zero divisor and on MinInt / -1.
DivPanicsNoZeroCheck(a, b) == a = MinInt /\ b = -1

DivPanics(a, b) == b = 0 \/ (a = MinInt /\ b = -1)

\* i32 `/`: truncation toward zero (MinInt / -1 wraps; 0 stands for x / 0,
\* which the callers below never use: they panic first).
Div(a, b) ==
    IF b = 0 THEN 0
    ELSE LET m == Magnitude(a) \div Magnitude(b)
         IN  Wrap(IF (a < 0) # (b < 0) THEN -m ELSE m)

\* i32 `%`: the remainder of the truncating division, its sign the dividend's.
RemFloor(a, b) ==
    IF b = 0 THEN 0
    ELSE LET m == a % Magnitude(b)
         IN  IF b < 0 /\ m # 0 THEN m + b ELSE m

Rem(a, b) ==
    IF b = 0 THEN 0
    ELSE LET m == Magnitude(a) % Magnitude(b)
         IN  IF a < 0 THEN -m ELSE m

\* Line 32: the coefficient pushed, p / q.
CoefficientAsRem(pp, qq) == Rem(pp, qq)

Coefficient(pp, qq) == Div(pp, qq)

\* The native gcd behind bindings::gcd, from its contract: the greatest common
\* divisor of two non-negative integers, 0 iff both are 0.
Euclid[n \in 0..MaxInt, m \in 0..MaxInt] ==
    IF m = 0 THEN n ELSE Euclid[m, n % m]

gcd(n, m) == Euclid[n, m]

\* from_rational, lines 20-27: the pair held when the expansion loop starts.
NormalizedNoNegP(pp, qq) ==
    LET d  == gcd(abs(pp), abs(qq))
        p1 == Div(pp, d)
        q1 == Div(qq, d)
    IN  IF q1 < 0 THEN <<p1, Wrap(-q1)>> ELSE <<p1, q1>>

NormalizedNoFlip(pp, qq) ==
    LET d  == gcd(abs(pp), abs(qq))
    IN  <<Div(pp, d), Div(qq, d)>>

Normalized(pp, qq) ==
    LET d  == gcd(abs(pp), abs(qq))
        p1 == Div(pp, d)
        q1 == Div(qq, d)
    IN  IF q1 < 0 THEN <<Wrap(-p1), Wrap(-q1)>> ELSE <<p1, q1>>

\* An operation of lines 20-27 whose exact result leaves the range.
NormalizeOverflows(pp, qq) ==
    LET d  == gcd(abs(pp), abs(qq))
        q1 == Div(qq, d)
    IN  \/ ~Fits(Magnitude(pp))
        \/ ~Fits(Magnitude(qq))
        \/ (q1 < 0 /\ (~Fits(-Div(pp, d)) \/ ~Fits(-q1)))

\* Line 33: (p, q) = (q, p % q).
NextPairNoRem(pp, qq) == <<qq, pp>>

NextPair(pp, qq) == <<qq, Rem(pp, qq)>>

\* Line 49: (num, den) = (coef * num + den, num), both from the old pair.
FoldStepSumFirst(coef, st) ==
    LET sum  == st.num + st.den
        prod == coef * Wrap(sum)
    IN  [num |-> Wrap(prod), den |-> st.num,
         ovf |-> st.ovf \/ ~Fits(sum) \/ ~Fits(prod)]

FoldStepSequential(coef, st) ==
    LET n == Wrap(Wrap(coef * st.num) + st.den)
    IN  [num |-> n, den |-> n,
         ovf |-> st.ovf \/ ~Fits(coef * st.num)
                        \/ ~Fits(Wrap(coef * st.num) + st.den)]

FoldStep(coef, st) ==
    LET prod == coef * st.num
        sum  == Wrap(prod) + st.den
    IN  [num |-> Wrap(sum), den |-> st.num,
         ovf |-> st.ovf \/ ~Fits(prod) \/ ~Fits(sum)]

\* Lines 48-50: the coefficients before the last, from the last to the first.
RECURSIVE Fold(_, _, _)
Fold(c, i, st) == IF i = 0 THEN st ELSE Fold(c, i - 1, FoldStep(c[i], st))

\* to_rational, lines 40-53.
to_rational_EmptyAsInfinity(c) ==
    IF c = <<>> THEN [num |-> 1, den |-> 0, ovf |-> FALSE]
    ELSE Fold(c, Len(c) - 1, [num |-> c[Len(c)], den |-> 1, ovf |-> FALSE])

to_rational(c) ==
    IF c = <<>> THEN [num |-> 0, den |-> 1, ovf |-> FALSE]
    ELSE Fold(c, Len(c) - 1, [num |-> c[Len(c)], den |-> 1, ovf |-> FALSE])

\* Lines 73-79: one convergent, and the shift of the rolling state.
ConvStepNoShift(a, st) ==
    LET hp == a * st.h_1
        h  == Wrap(hp) + st.h_2
        kp == a * st.k_1
        k  == Wrap(kp) + st.k_2
    IN  [h_2 |-> st.h_2, k_2 |-> st.k_2, h_1 |-> Wrap(h), k_1 |-> Wrap(k),
         result |-> Append(st.result, <<Wrap(h), Wrap(k)>>),
         ovf |-> st.ovf \/ ~Fits(hp) \/ ~Fits(h) \/ ~Fits(kp) \/ ~Fits(k)]

ConvStep(a, st) ==
    LET hp == a * st.h_1
        h  == Wrap(hp) + st.h_2
        kp == a * st.k_1
        k  == Wrap(kp) + st.k_2
    IN  [h_2 |-> st.h_1, k_2 |-> st.k_1, h_1 |-> Wrap(h), k_1 |-> Wrap(k),
         result |-> Append(st.result, <<Wrap(h), Wrap(k)>>),
         ovf |-> st.ovf \/ ~Fits(hp) \/ ~Fits(h) \/ ~Fits(kp) \/ ~Fits(k)]

\* Lines 72-80: the coefficients from c[i] on.
RECURSIVE ConvLoop(_, _, _)
ConvLoop(c, i, st) ==
    IF i > Len(c) THEN st ELSE ConvLoop(c, i + 1, ConvStep(c[i], st))

\* convergents, lines 61-83.
convergentsSeedsSwapped(c) ==
    ConvLoop(c, 1, [h_2 |-> 1, k_2 |-> 0, h_1 |-> 0, k_1 |-> 1,
                    result |-> <<>>, ovf |-> FALSE])

convergents(c) ==
    ConvLoop(c, 1, [h_2 |-> 0, k_2 |-> 1, h_1 |-> 1, k_1 |-> 0,
                    result |-> <<>>, ovf |-> FALSE])

----------------------------------------------------------------------------

\* No call has been made: there is no ContinuedFraction yet.
Init ==
    /\ pc = "idle"
    /\ p_in = 0
    /\ q_in = 0
    /\ p = 0
    /\ q = 0
    /\ coefficients = <<>>
    /\ rat = <<>>
    /\ conv = <<>>
    /\ returned = {}
    /\ overflow = FALSE

\* Line 19: from_rational(pp, qq) is entered, p and q bound to the arguments.
Call ==
    /\ pc = "idle"
    /\ \E pp \in Inputs, qq \in Inputs :
          /\ p_in' = pp
          /\ q_in' = qq
          /\ p' = pp
          /\ q' = qq
    /\ pc' = "start"
    /\ UNCHANGED <<coefficients, rat, conv, returned, overflow>>

\* Lines 20-27, and the empty vector of line 29.
Normalize ==
    /\ pc = "start"
    /\ LET d == gcd(abs(p), abs(q))
       IN  IF DivPanics(p, d) \/ DivPanics(q, d)
           THEN /\ pc' = "panic"
                /\ UNCHANGED <<p, q, overflow>>
           ELSE /\ pc' = "expand"
                /\ p' = Normalized(p, q)[1]
                /\ q' = Normalized(p, q)[2]
                /\ overflow' = (overflow \/ NormalizeOverflows(p, q))
    /\ UNCHANGED <<p_in, q_in, coefficients, rat, conv, returned>>

\* Lines 31-34: one iteration of `while q != 0`.
ExpandStep ==
    /\ pc = "expand"
    /\ q # 0
    /\ IF DivPanics(p, q)
       THEN /\ pc' = "panic"
            /\ UNCHANGED <<p, q, coefficients>>
       ELSE /\ coefficients' = Append(coefficients, Coefficient(p, q))
            /\ p' = NextPair(p, q)[1]
            /\ q' = NextPair(p, q)[2]
            /\ pc' = "expand"
    /\ UNCHANGED <<p_in, q_in, rat, conv, returned, overflow>>

\* Lines 31 and 36: the loop is left and the value is returned.
ExpandDone ==
    /\ pc = "expand"
    /\ q = 0
    /\ pc' = "built"
    /\ UNCHANGED <<p_in, q_in, p, q, coefficients, rat, conv, returned, overflow>>

\* A call of to_rational on the built value.
ToRational ==
    /\ pc = "built"
    /\ LET r == to_rational(coefficients)
       IN  /\ rat' = <<r.num, r.den>>
           /\ overflow' = (overflow \/ r.ovf)
    /\ returned' = returned \cup {"to_rational"}
    /\ UNCHANGED <<pc, p_in, q_in, p, q, coefficients, conv>>

\* A call of convergents on the built value.
Convergents ==
    /\ pc = "built"
    /\ LET r == convergents(coefficients)
       IN  /\ conv' = r.result
           /\ overflow' = (overflow \/ r.ovf)
    /\ returned' = returned \cup {"convergents"}
    /\ UNCHANGED <<pc, p_in, q_in, p, q, coefficients, rat>>

\* The steps of a call of from_rational, once entered.
FromRational == Normalize \/ ExpandStep \/ ExpandDone

Next == Call \/ FromRational \/ ToRational \/ Convergents

Spec == Init /\ [][Next]_vars

\* The code is sequential: a call of from_rational that can take a step takes it.
FairSpec == Init /\ [][Next]_vars /\ WF_vars(FromRational)

----------------------------------------------------------------------------
(* Properties *)

Both == {"to_rational", "convergents"}

LastOf(s) == s[Len(s)]

\* No integer above 1 divides both a and b.
Coprime(a, b) ==
    \A k \in 2..(MaxInt + 1) :
        ~(Magnitude(a) % k = 0 /\ Magnitude(b) % k = 0)

\* The input's numerator is negative after normalization and its normalized
\* denominator is above 1: p and q have opposite signs and q does not divide p.
NegativeFraction ==
    /\ p_in * q_in < 0
    /\ Magnitude(p_in) % Magnitude(q_in) # 0

\* Every coefficient after the first is >= 1, and the last is > 1 when there
\* is more than one.
Canonical(c) ==
    /\ \A i \in 2..Len(c) : c[i] >= 1
    /\ Len(c) > 1 => LastOf(c) > 1

\* C1: for every input with q # 0, the pair (p2, q2) that to_rational returns
\* for from_rational(p, q) satisfies p * q2 = p2 * q.
C1_RoundTrip ==
    (pc = "built" /\ "to_rational" \in returned /\ q_in # 0)
        => p_in * rat[2] = rat[1] * q_in

C1_Witness ==
    /\ pc = "built"
    /\ "to_rational" \in returned
    /\ p_in < 0
    /\ q_in < 0
    /\ ~Coprime(p_in, q_in)
    /\ Len(coefficients) >= 3
    /\ rat # <<p_in, q_in>>

\* C2: for every input with q # 0, the last pair (h, k) of convergents()
\* satisfies h * q = p * k; for 22/7 the convergents are (3, 1), (22, 7).
C2_LastConvergent ==
    ("convergents" \in returned /\ q_in # 0)
        => /\ conv # <<>>
           /\ LastOf(conv)[1] * q_in = p_in * LastOf(conv)[2]
           /\ (p_in = 22 /\ q_in = 7) => conv = << <<3, 1>>, <<22, 7>> >>

C2_Witness ==
    /\ "convergents" \in returned
    /\ p_in = 22
    /\ q_in = 7
    /\ Len(conv) = 2

\* C3 as stated: for every input with q # 0 the coefficients are canonical.
C3_CanonicalAnySign ==
    (pc = "built" /\ q_in # 0) => Canonical(coefficients)

\* C3 amended: the coefficients are canonical for every input with q # 0
\* whose normalized numerator is >= 0 or whose normalized denominator is 1;
\* from_rational(3, 1) gives [3] and from_rational(1, 2) gives [0, 2].
C3_CanonicalNonNegative ==
    /\ (pc = "built" /\ q_in # 0 /\ ~NegativeFraction) => Canonical(coefficients)
    /\ (pc = "built" /\ p_in = 3 /\ q_in = 1) => coefficients = <<3>>
    /\ (pc = "built" /\ p_in = 1 /\ q_in = 2) => coefficients = <<0, 2>>

C3_Witness ==
    /\ pc = "built"
    /\ p_in > 0
    /\ q_in > 0
    /\ Len(coefficients) >= 4
    /\ LastOf(coefficients) = 2

\* C4: the pair (p', q') held when the expansion loop starts satisfies
\* p' * q = p * q', has no common divisor above 1, and has q' >= 0.
C4_Normalization ==
    (pc = "expand" /\ coefficients = <<>>)
        => /\ p * q_in = p_in * q
           /\ Coprime(p, q)
           /\ q >= 0

C4_Witness ==
    /\ pc = "expand"
    /\ coefficients = <<>>
    /\ q_in < -1
    /\ p_in > 1
    /\ q # -q_in

\* C5 as stated: from_rational(0, 0) does not abort.
C5_ZeroZeroCompletes == (p_in = 0 /\ q_in = 0) => pc # "panic"

\* C5 amended: from_rational(0, 0) aborts at the division by d = gcd(0, 0) = 0,
\* before any coefficient is produced, and returns no ContinuedFraction.
C5_ZeroZeroPanics ==
    (p_in = 0 /\ q_in = 0 /\ pc \notin {"idle", "start"})
        => (pc = "panic" /\ coefficients = <<>> /\ returned = {})

C5_Witness == p_in = 0 /\ q_in = 0 /\ pc = "panic"

\* C6: for inputs not both zero the built coefficient sequence is empty iff
\* q = 0; then the loop is entered with q = 0 and to_rational returns (0, 1).
C6_EmptyIffZeroDenominator ==
    /\ pc = "built" => ((coefficients = <<>>) <=> (q_in = 0))
    /\ (pc = "expand" /\ q_in = 0) => (q = 0 /\ coefficients = <<>>)
    /\ (pc = "built" /\ q_in = 0 /\ "to_rational" \in returned) => rat = <<0, 1>>

C6_Witness ==
    /\ pc = "built"
    /\ q_in = 0
    /\ p_in < -1
    /\ coefficients = <<>>
    /\ "to_rational" \in returned

\* C7: no arithmetic result of to_rational or convergents (nor of
\* from_rational before them) leaves the IntBits-bit range, for every input
\* not both zero with neither part the minimum value.
C7_NoOverflow == overflow = FALSE

C7_Witness ==
    /\ returned = Both
    /\ Magnitude(p_in) = MaxInt
    /\ Len(coefficients) >= 4
    /\ Magnitude(LastOf(conv)[1]) = MaxInt

\* C8: for a non-empty coefficient sequence, the last pair (h, k) of
\* convergents() and the pair (num, den) of to_rational() satisfy
\* h * den = num * k.
C8_LastConvergentIsReconstruction ==
    (returned = Both /\ coefficients # <<>>)
        => LastOf(conv)[1] * rat[2] = rat[1] * LastOf(conv)[2]

C8_Witness ==
    /\ returned = Both
    /\ Len(coefficients) >= 3
    /\ p_in < 0
    /\ rat # <<p_in, q_in>>

\* C9 as stated: q >= 0 in every state of the expansion loop.
C9_DenominatorNeverNegative == pc = "expand" => q >= 0

\* C9 amended: q >= 0 when the expansion loop is entered, for every input; and
\* after each step for every input whose normalized numerator is >= 0 or whose
\* normalized denominator is 1.
C9_DenominatorNonNegative ==
    (pc = "expand" /\ (coefficients = <<>> \/ q_in = 0 \/ ~NegativeFraction))
        => q >= 0

C9_Witness ==
    /\ pc = "expand"
    /\ Len(coefficients) >= 2
    /\ q_in < 0
    /\ p_in < 0
    /\ q > 0

\* C10: every iteration of the expansion loop strictly decreases |q|, and for
\* every input not both zero the loop is left and the value is returned.
C10_LoopTerminates ==
    /\ [][ExpandStep => Magnitude(q') < Magnitude(q)]_vars
    /\ (pc = "start" /\ ~(p_in = 0 /\ q_in = 0)) ~> (pc = "built")

C10_Witness ==
    /\ pc = "built"
    /\ returned = {}
    /\ Len(coefficients) >= 5
    /\ p_in < 0

====
